---- MODULE Spec2Model ----
(***************************************************************************)
(* The calories-burned calculator of src/app/routes/home.tsx               *)
(* (CaloriesCalculator, useWalkingCalc, calcSteps, toNumber, resetAll).    *)
(*                                                                         *)
(* JavaScript numbers are modelled as IEEE-754 values without rounding     *)
(* error: a value is NaN, +Infinity, -Infinity or a signed exact rational  *)
(* (so +0 and -0 are distinct, x/0 is an infinity, 0/0 and Infinity*0 are  *)
(* NaN).  Numerators and denominators are arbitrary-precision naturals     *)
(* kept as little-endian sequences of base-10000 limbs.                    *)
(***************************************************************************)
EXTENDS Integers, Sequences, FiniteSets, TLC

(***************************************************************************)
(* Arbitrary-precision naturals.                                           *)
(***************************************************************************)
\* 10^4: the product of two limbs stays within TLC's integers
Base == 100 * 100

RECURSIVE BigOfNat(_)
BigOfNat(n) == IF n = 0 THEN <<>> ELSE <<n % Base>> \o BigOfNat(n \div Base)

BigShift(a) == IF a = <<>> THEN <<>> ELSE <<0>> \o a

RECURSIVE BigTrim(_)
BigTrim(a) ==
  IF a = <<>> THEN <<>>
  ELSE IF a[Len(a)] = 0 THEN BigTrim(SubSeq(a, 1, Len(a) - 1)) ELSE a

RECURSIVE BigAddC(_, _, _, _)
BigAddC(a, b, i, c) ==
  IF i > Len(a) /\ i > Len(b)
  THEN (IF c = 0 THEN <<>> ELSE <<c>>)
  ELSE LET t == (IF i <= Len(a) THEN a[i] ELSE 0)
                + (IF i <= Len(b) THEN b[i] ELSE 0) + c
       IN  <<t % Base>> \o BigAddC(a, b, i + 1, t \div Base)

BigAdd(a, b) == BigAddC(a, b, 1, 0)

\* a - b for a >= b
RECURSIVE BigSubC(_, _, _, _)
BigSubC(a, b, i, c) ==
  IF i > Len(a) THEN <<>>
  ELSE LET t == a[i] - (IF i <= Len(b) THEN b[i] ELSE 0) - c
       IN  IF t < 0 THEN <<t + Base>> \o BigSubC(a, b, i + 1, 1)
           ELSE <<t>> \o BigSubC(a, b, i + 1, 0)

BigSub(a, b) == BigTrim(BigSubC(a, b, 1, 0))

\* a * k for a limb-sized k (0 <= k < Base)
RECURSIVE BigMulC(_, _, _, _)
BigMulC(a, k, i, c) ==
  IF i > Len(a) THEN (IF c = 0 THEN <<>> ELSE <<c>>)
  ELSE LET t == a[i] * k + c
       IN  <<t % Base>> \o BigMulC(a, k, i + 1, t \div Base)

BigMulSmall(a, k) == IF k = 0 THEN <<>> ELSE BigMulC(a, k, 1, 0)

RECURSIVE BigMulFrom(_, _, _)
BigMulFrom(a, b, i) ==
  IF i > Len(b) THEN <<>>
  ELSE BigAdd(BigMulSmall(a, b[i]), BigShift(BigMulFrom(a, b, i + 1)))

BigMul(a, b) ==
  IF a = <<>> \/ b = <<>> THEN <<>>
  ELSE IF Len(a) >= Len(b) THEN BigMulFrom(a, b, 1) ELSE BigMulFrom(b, a, 1)

\* -1, 0, 1 as a < b, a = b, a > b
RECURSIVE BigCmpAt(_, _, _)
BigCmpAt(a, b, i) ==
  IF i = 0 THEN 0
  ELSE IF a[i] < b[i] THEN -1
  ELSE IF a[i] > b[i] THEN 1
  ELSE BigCmpAt(a, b, i - 1)

BigCmp(a, b) ==
  IF Len(a) < Len(b) THEN -1
  ELSE IF Len(a) > Len(b) THEN 1
  ELSE BigCmpAt(a, b, Len(a))

\* the largest q in lo..hi with b * q <= r (b * lo <= r is given)
RECURSIVE BigDigit(_, _, _, _)
BigDigit(r, b, lo, hi) ==
  IF lo = hi THEN lo
  ELSE LET mid == (lo + hi + 1) \div 2
       IN  IF BigCmp(BigMulSmall(b, mid), r) <= 0
           THEN BigDigit(r, b, mid, hi)
           ELSE BigDigit(r, b, lo, mid - 1)

\* long division of a by b > 0 from limb i down, with remainder r so far:
\* the quotient, least significant limb first
RECURSIVE BigDivAt(_, _, _, _)
BigDivAt(a, b, i, r) ==
  IF i = 0 THEN <<>>
  ELSE LET cur == BigTrim(<<a[i]>> \o r)
           q   == IF BigCmp(cur, b) < 0 THEN 0
                  ELSE BigDigit(cur, b, 1, Base - 1)
       IN  BigDivAt(a, b, i - 1, BigSub(cur, BigMulSmall(b, q))) \o <<q>>

BigDiv(a, b) == BigTrim(BigDivAt(a, b, Len(a), <<>>))

(***************************************************************************)
(* Numbers: k = "fin" is the rational s * n / d (s = 1 or -1, d > 0; n = 0 *)
(* with s = -1 is -0), k = "inf" is s * Infinity, k = "nan" is NaN.        *)
(***************************************************************************)
Fin(s, n, d) == [k |-> "fin", s |-> s, n |-> n, d |-> d]
Inf(s) == [k |-> "inf", s |-> s, n |-> <<>>, d |-> <<>>]
NaN == [k |-> "nan", s |-> 1, n |-> <<>>, d |-> <<>>]

\* the integer literal i
Num(i) == IF i < 0 THEN Fin(-1, BigOfNat(-i), <<1>>) ELSE Fin(1, BigOfNat(i), <<1>>)

\* 10^e
Pow10(e) ==
  [i \in 1..(e \div 4) |-> 0]
  \o <<CASE e % 4 = 0 -> 1 [] e % 4 = 1 -> 10 [] e % 4 = 2 -> 100 [] OTHER -> 1000>>

\* the decimal literal m * 10^-e
Dec(m, e) == Fin(1, BigOfNat(m), Pow10(e))

IsFinite(x) == x.k = "fin"
IsZero(x) == x.k = "fin" /\ x.n = <<>>

\* x * y
Mul(x, y) ==
  IF x.k = "nan" \/ y.k = "nan" THEN NaN
  ELSE IF x.k = "inf" \/ y.k = "inf"
       THEN (IF IsZero(x) \/ IsZero(y) THEN NaN ELSE Inf(x.s * y.s))
  ELSE Fin(x.s * y.s, BigMul(x.n, y.n), BigMul(x.d, y.d))

\* x / y
Div(x, y) ==
  IF x.k = "nan" \/ y.k = "nan" THEN NaN
  ELSE IF x.k = "inf"
       THEN (IF y.k = "inf" THEN NaN ELSE Inf(x.s * y.s))
  ELSE IF y.k = "inf" THEN Fin(x.s * y.s, <<>>, <<1>>)
  ELSE IF y.n = <<>>
       THEN (IF x.n = <<>> THEN NaN ELSE Inf(x.s * y.s))
  ELSE Fin(x.s * y.s, BigMul(x.n, y.d), BigMul(x.d, y.n))

\* -1, 0, 1 as x < y, x = y, x > y, for numbers other than NaN (-0 = +0)
Sign(x) == IF IsZero(x) THEN 0 ELSE x.s

Cmp(x, y) ==
  IF Sign(x) # Sign(y) THEN (IF Sign(x) < Sign(y) THEN -1 ELSE 1)
  ELSE IF Sign(x) = 0 THEN 0
  ELSE IF x.k = "inf" \/ y.k = "inf"
       THEN (IF x.k = y.k THEN 0
             ELSE IF x.k = "inf" THEN x.s ELSE -(y.s))
  ELSE x.s * BigCmp(BigMul(x.n, y.d), BigMul(y.n, x.d))

\* the comparisons of JavaScript: false when an operand is NaN
Gt(x, y) == x.k # "nan" /\ y.k # "nan" /\ Cmp(x, y) > 0
Ge(x, y) == x.k # "nan" /\ y.k # "nan" /\ Cmp(x, y) >= 0
Eq(x, y) == x.k # "nan" /\ y.k # "nan" /\ Cmp(x, y) = 0

\* the same value: equal numbers of the same sign of zero, or both NaN
Same(x, y) ==
  \/ x = y
  \/ IF x.k = "nan" \/ y.k = "nan" THEN x.k = y.k
     ELSE Cmp(x, y) = 0 /\ x.s = y.s

\* truthiness, as || reads its left operand: false for 0, -0 and NaN
Truthy(x) == x.k # "nan" /\ ~IsZero(x)

\* x || y
OrElse(x, y) == IF Truthy(x) THEN x ELSE y

\* Math.round: the integer nearest to x, halves towards +Infinity
MathRound(x) ==
  IF x.k # "fin" THEN x
  ELSE LET twoN == BigMulSmall(x.n, 2)
           twoD == BigMulSmall(x.d, 2)
       IN  IF x.s = 1
           THEN Fin(1, BigDiv(BigAdd(twoN, x.d), twoD), <<1>>)
           ELSE IF BigCmp(twoN, x.d) <= 0 THEN Fin(-1, <<>>, <<1>>)
           ELSE Fin(-1, BigDiv(BigSub(BigAdd(twoN, twoD), BigAdd(x.d, <<1>>)), twoD), <<1>>)

(***************************************************************************)
(* toNumber.  A string is the sequence of its characters.                  *)
(***************************************************************************)
Digits == <<"0", "1", "2", "3", "4", "5", "6", "7", "8", "9">>
IsDigit(c) == \E i \in 1..10 : Digits[i] = c
DigitVal(c) == (CHOOSE i \in 1..10 : Digits[i] = c) - 1
WhiteSpace == {" ", "\t", "\n", "\r"}

\* the character at i, "" past the end
At(v, i) == IF i >= 1 /\ i <= Len(v) THEN v[i] ELSE ""

RECURSIVE SkipWhiteSpace(_, _)
SkipWhiteSpace(v, i) ==
  IF At(v, i) \in WhiteSpace THEN SkipWhiteSpace(v, i + 1) ELSE i

RECURSIVE DigitsEnd(_, _)
DigitsEnd(v, i) == IF IsDigit(At(v, i)) THEN DigitsEnd(v, i + 1) ELSE i

\* acc followed by the decimal digits v[i..j-1]
RECURSIVE DigitsBig(_, _, _, _)
DigitsBig(v, i, j, acc) ==
  IF i >= j THEN acc
  ELSE DigitsBig(v, i + 1, j,
                 BigAdd(BigMulSmall(acc, 10), BigOfNat(DigitVal(v[i]))))

\* the decimal digits v[i..j-1] as an integer, saturating at 100000
RECURSIVE DigitsInt(_, _, _, _)
DigitsInt(v, i, j, acc) ==
  IF i >= j THEN acc
  ELSE DigitsInt(v, i + 1, j,
                 IF acc >= 10000 THEN 100000 ELSE acc * 10 + DigitVal(v[i]))

\* the number of decimal digits of a
BigDigits(a) ==
  IF a = <<>> THEN 0
  ELSE LET t == a[Len(a)]
       IN  4 * (Len(a) - 1)
           + (IF t >= 1000 THEN 4 ELSE IF t >= 100 THEN 3 ELSE IF t >= 10 THEN 2 ELSE 1)

\* 2^1024 - 2^970: from here on a decimal rounds to Infinity
OverflowAt ==
  <<7792, 7449, 9041, 177, 4288, 930, 9508, 5969, 7115, 4342, 1070, 3655,
    8444, 7416, 7190, 5292, 3647, 8349, 9860, 1481, 8429, 9622, 6695, 5713,
    9855, 7006, 7302, 4475, 3176, 7115, 5817, 5484, 2738, 3676, 838, 7,
    8902, 8190, 8206, 1505, 8867, 6574, 2630, 4040, 8519, 5547, 4655, 9109,
    2887, 1669, 2864, 6330, 709, 5872, 7977, 4901, 9466, 4750, 9276, 9682,
    444, 7898, 1737, 6936, 3782, 7100, 4132, 7993, 4150, 5303, 7140, 7289,
    793, 3158, 4862, 9313, 7976, 1>>

\* 2^1075: n/d rounds to zero when n * 2^1075 <= d
UnderflowBy ==
  <<9568, 8698, 4821, 5415, 2661, 125, 7292, 5501, 3726, 5064, 6100, 2304,
    6829, 466, 5391, 4717, 1302, 6201, 2681, 1911, 2983, 6711, 3620, 3972,
    9385, 6684, 149, 7124, 9013, 9454, 5356, 7953, 6824, 6432, 8418, 8154,
    8933, 2272, 1327, 8553, 3484, 8430, 7019, 8147, 7998, 4026, 5373, 5869,
    4771, 1747, 7796, 3822, 3362, 7286, 4155, 9037, 2489, 2874, 6740, 9207,
    3783, 9069, 1359, 679, 5486, 7160, 3802, 3671, 2842, 9528, 1329, 991,
    4614, 3783, 6934, 4990, 3670, 6212, 6614, 450, 4048>>

\* the double s * m * 10^scale, without the rounding of its 53 bits
Decimal(s, m, scale) ==
  LET order == BigDigits(m) + scale
  IN  IF m = <<>> THEN Fin(s, <<>>, <<1>>)
      ELSE IF order > 310 THEN Inf(s)
      ELSE IF order < -330 THEN Fin(s, <<>>, <<1>>)
      ELSE LET n == IF scale >= 0 THEN BigMul(m, Pow10(scale)) ELSE m
               d == IF scale >= 0 THEN <<1>> ELSE Pow10(-scale)
           IN  IF order >= 309 /\ BigCmp(n, BigMul(OverflowAt, d)) >= 0
               THEN Inf(s)
               ELSE IF order <= -322 /\ BigCmp(BigMul(n, UnderflowBy), d) <= 0
               THEN Fin(s, <<>>, <<1>>)
               ELSE Fin(s, n, d)

\* parseFloat: the longest prefix of v (after white space) that is a
\* decimal literal, NaN when there is none
parseFloat(v) ==
  LET a  == SkipWhiteSpace(v, 1)
      sg == IF At(v, a) = "-" THEN -1 ELSE 1
      b  == IF At(v, a) \in {"+", "-"} THEN a + 1 ELSE a
  IN  IF [i \in 1..8 |-> At(v, b + i - 1)]
           = <<"I", "n", "f", "i", "n", "i", "t", "y">>
      THEN Inf(sg)
      ELSE
      LET c     == DigitsEnd(v, b)
          e     == IF At(v, c) = "." THEN DigitsEnd(v, c + 1) ELSE c
          nFrac == IF e > c THEN e - (c + 1) ELSE 0
          f     == IF At(v, e + 1) \in {"+", "-"} THEN e + 2 ELSE e + 1
          g     == DigitsEnd(v, f)
          ex    == IF At(v, e) \in {"e", "E"} /\ g > f
                   THEN (IF At(v, e + 1) = "-" THEN -1 ELSE 1) * DigitsInt(v, f, g, 0)
                   ELSE 0
      IN  IF (c - b) + nFrac = 0 THEN NaN
          ELSE Decimal(sg, DigitsBig(v, c + 1, e, DigitsBig(v, b, c, <<>>)),
                       ex - nFrac)

\* v.replace(",", "."): the first comma only
ReplaceComma(v) ==
  IF \E i \in 1..Len(v) : v[i] = ","
  THEN LET i == CHOOSE i \in 1..Len(v) :
                  v[i] = "," /\ \A j \in 1..(i - 1) : v[j] # ","
       IN  [v EXCEPT ![i] = "."]
  ELSE v

\* toNumber without the fallback to 0
toNumberNoFallback(v) == parseFloat(ReplaceComma(v))

toNumber(v) ==
  LET n == parseFloat(ReplaceComma(v))
  IN  IF IsFinite(n) THEN n ELSE Num(0)

(***************************************************************************)
(* The constant tables.                                                    *)
(***************************************************************************)
SexKey == {"female", "male"}
PaceKey == {"easy", "brisk", "power", "jog"}

STRIDE_FACTORS == [female |-> Dec(413, 3), male |-> Dec(415, 3)]

PACE ==
  [easy  |-> [mph |-> Dec(25, 1), mets |-> Dec(30, 1)],
   brisk |-> [mph |-> Dec(35, 1), mets |-> Dec(43, 1)],
   power |-> [mph |-> Dec(43, 1), mets |-> Dec(50, 1)],
   jog   |-> [mph |-> Dec(50, 1), mets |-> Dec(70, 1)]]

(***************************************************************************)
(* useWalkingCalc, one operator per line of its body.  P is the pace table *)
(* it reads (PACE in the program).                                         *)
(***************************************************************************)
WeightKg(w, wu) == IF wu = "kg" THEN w ELSE Mul(w, Dec(45359237, 8))

HeightCm(h, hu) == IF hu = "cm" THEN h ELSE Mul(h, Dec(254, 2))

\* StrideAuto with the sex ignored
StrideAutoOneFactor(hcm, sx) == Mul(hcm, STRIDE_FACTORS["female"])

StrideAuto(hcm, sx) == Mul(hcm, STRIDE_FACTORS[sx])

StrideCm(ucs, csc, auto) == IF ucs THEN OrElse(csc, auto) ELSE auto

DistanceKm(st, scm) == Div(Mul(OrElse(st, Num(0)), Div(scm, Num(100))), Num(1000))

DistanceMi(km) == Mul(km, Dec(621371, 6))

\* Hours without the guard on a zero speed
HoursUnguarded(mi, mph) == Div(mi, mph)

\* Hours with the speed multiplied in
HoursTimesSpeed(mi, mph) == IF Gt(mph, Num(0)) THEN Mul(mi, mph) ELSE Num(0)

Hours(mi, mph) == IF Gt(mph, Num(0)) THEN Div(mi, mph) ELSE Num(0)

Minutes(hrs) == Mul(hrs, Num(60))

\* Calories per 100 instead of per 200
CaloriesPer100(mets, wkg, mins) ==
  Mul(Mul(Mul(mets, Dec(35, 1)), wkg), Div(mins, Num(100)))

\* Calories with the weight divided out
CaloriesPerKg(mets, wkg, mins) ==
  Mul(Div(Mul(mets, Dec(35, 1)), wkg), Div(mins, Num(200)))

Calories(mets, wkg, mins) ==
  Mul(Mul(Mul(mets, Dec(35, 1)), wkg), Div(mins, Num(200)))

\* Cadence without the guard on zero minutes
CadenceUnguarded(st, mins) == Div(st, mins)

\* Cadence inverted: minutes per step
CadenceMinutesPerStep(st, mins) ==
  IF Gt(mins, Num(0)) THEN Div(mins, st) ELSE Num(0)

Cadence(st, mins) == IF Gt(mins, Num(0)) THEN Div(st, mins) ELSE Num(0)

WalkingCalc(P, w, wu, h, hu, st, sx, pc, csc, ucs) ==
  LET weightKg_   == WeightKg(w, wu)
      heightCm_   == HeightCm(h, hu)
      strideAuto_ == StrideAuto(heightCm_, sx)
      strideCm_   == StrideCm(ucs, csc, strideAuto_)
      distanceKm_ == DistanceKm(st, strideCm_)
      distanceMi_ == DistanceMi(distanceKm_)
      mph_        == P[pc].mph
      mets_       == P[pc].mets
      hours_      == Hours(distanceMi_, mph_)
      minutes_    == Minutes(hours_)
      calories_   == Calories(mets_, weightKg_, minutes_)
      cadence_    == Cadence(st, minutes_)
  IN  [strideAuto |-> strideAuto_, strideCm |-> strideCm_,
       distanceKm |-> distanceKm_, distanceMi |-> distanceMi_,
       minutes |-> minutes_, hours |-> hours_, calories |-> calories_,
       cadence |-> cadence_, mph |-> mph_]

useWalkingCalc(w, wu, h, hu, st, sx, pc, csc, ucs) ==
  WalkingCalc(PACE, w, wu, h, hu, st, sx, pc, csc, ucs)

(***************************************************************************)
(* calcSteps of CaloriesCalculator: the steps handed to useWalkingCalc.    *)
(***************************************************************************)
\* CalcKm without the miles-to-kilometres factor
CalcKmInMiles(P, im, dkm, tm, pc) ==
  IF im = "distance" THEN dkm ELSE Mul(P[pc].mph, Div(tm, Num(60)))

CalcKm(P, im, dkm, tm, pc) ==
  IF im = "distance" THEN dkm
  ELSE Mul(Mul(P[pc].mph, Dec(160934, 5)), Div(tm, Num(60)))

CalcStride(h, sx, ucs, csc) ==
  IF ucs THEN OrElse(csc, Mul(h, STRIDE_FACTORS[sx]))
  ELSE Mul(h, STRIDE_FACTORS[sx])

\* CalcStepsWith without the early return of steps mode
CalcStepsNoEarlyReturn(P, im, st, dkm, tm, pc, h, sx, ucs, csc) ==
  MathRound(Div(Mul(CalcKm(P, im, dkm, tm, pc), Num(1000)),
                Div(CalcStride(h, sx, ucs, csc), Num(100))))

CalcStepsWith(P, im, st, dkm, tm, pc, h, sx, ucs, csc) ==
  IF im = "steps" THEN st
  ELSE MathRound(Div(Mul(CalcKm(P, im, dkm, tm, pc), Num(1000)),
                     Div(CalcStride(h, sx, ucs, csc), Num(100))))

CalcSteps(im, st, dkm, tm, pc, h, sx, ucs, csc) ==
  CalcStepsWith(PACE, im, st, dkm, tm, pc, h, sx, ucs, csc)

\* what CaloriesCalculator renders from its twelve state cells: calcSteps
\* handed to useWalkingCalc as steps
Rendered(im, w, wu, h, hu, st, dkm, tm, pc, sx, ucs, csc) ==
  useWalkingCalc(w, wu, h, hu,
                 CalcSteps(im, st, dkm, tm, pc, h, sx, ucs, csc),
                 sx, pc, csc, ucs)

(***************************************************************************)
(* CaloriesCalculator: the state cells of the component, the events of its *)
(* controls, and what it renders.                                          *)
(***************************************************************************)
VARIABLES inputMode, weight, weightUnit, height, heightUnit, steps,
          distanceKm, timeMin, pace, sex, useCustomStride, customStrideCm,
          calcStepsMemo, \* useMemo cell of calcSteps
          rMemo,         \* useMemo cell of useWalkingCalc
          text,          \* e.target.value handed to toNumber
          parsed,        \* what toNumber returned for it
          page,          \* the calculators of a page with two of them
          target         \* the calculator of that page the last event was on

vars == <<inputMode, weight, weightUnit, height, heightUnit, steps,
          distanceKm, timeMin, pace, sex, useCustomStride, customStrideCm,
          calcStepsMemo, rMemo, text, parsed, page, target>>

InputMode == {"steps", "distance", "time"}
WeightUnit == {"kg", "lb"}
HeightUnit == {"cm", "in"}

\* how many of the strings below are typed into the height field and into
\* the stride field
MaxHeightStrings == 2
MaxStrideStrings == 3

\* the strings typed into each number field (e.target.value)
TypedWeight == {<<>>, <<"7", "0">>}
TypedHeight ==
  {<< <<>>, <<"1", "7", "0">>, <<"6", "7">>, <<"-", "1">> >>[i] :
     i \in 1..MaxHeightStrings}
TypedSteps == {<<"0">>, <<"5", "0", "0", "0">>}
TypedDistance == {<<>>, <<"4">>}
TypedTime == {<<"0">>, <<"4", "0">>}
TypedStride ==
  {<< <<>>, <<"7", "5">>, <<"-", "5">>, <<"1", ",", "5">>, <<"e">> >>[i] :
     i \in 1..MaxStrideStrings}

\* the twelve state cells as one record
Cells ==
  [inputMode |-> inputMode, weight |-> weight, weightUnit |-> weightUnit,
   height |-> height, heightUnit |-> heightUnit, steps |-> steps,
   distanceKm |-> distanceKm, timeMin |-> timeMin, pace |-> pace, sex |-> sex,
   useCustomStride |-> useCustomStride, customStrideCm |-> customStrideCm]

\* the cells that hold numbers
NumberCells ==
  {"weight", "height", "steps", "distanceKm", "timeMin", "customStrideCm"}

\* Object.is on the cell named d of two renders
Is(d, a, b) == IF d \in NumberCells THEN Same(a[d], b[d]) ELSE a[d] = b[d]

\* calcSteps without height in its dependency array
CalcStepsDepsWithoutHeight ==
  {"inputMode", "steps", "distanceKm", "timeMin", "pace", "sex",
   "useCustomStride", "customStrideCm"}

\* the dependency array of the calcSteps useMemo
CalcStepsDeps ==
  {"inputMode", "steps", "distanceKm", "timeMin", "pace", "height", "sex",
   "useCustomStride", "customStrideCm"}

\* useWalkingCalc without weightUnit in its dependency array
RDepsWithoutWeightUnit ==
  {"weight", "height", "heightUnit", "steps", "sex", "pace",
   "customStrideCm", "useCustomStride"}

\* the dependency array of the useMemo of useWalkingCalc, by parameter name:
\* steps is the parameter that receives calcSteps
RDeps ==
  {"weight", "weightUnit", "height", "heightUnit", "steps", "sex", "pace",
   "customStrideCm", "useCustomStride"}

\* what the calcSteps callback reads when it runs in a render with cells c
CalcStepsReads(c) ==
  [inputMode |-> c.inputMode, steps |-> c.steps, distanceKm |-> c.distanceKm,
   timeMin |-> c.timeMin, pace |-> c.pace, height |-> c.height, sex |-> c.sex,
   useCustomStride |-> c.useCustomStride, customStrideCm |-> c.customStrideCm]

\* what the useWalkingCalc callback reads in a render with cells c; the step
\* count is kept as the reads of the calcSteps run it comes from
RReads(c, cs) ==
  [weight |-> c.weight, weightUnit |-> c.weightUnit, height |-> c.height,
   heightUnit |-> c.heightUnit, steps |-> cs, sex |-> c.sex, pace |-> c.pace,
   customStrideCm |-> c.customStrideCm, useCustomStride |-> c.useCustomStride]

\* the value a run of the calcSteps callback returned
CalcStepsOf(m) ==
  CalcSteps(m.inputMode, m.steps, m.distanceKm, m.timeMin, m.pace, m.height,
            m.sex, m.useCustomStride, m.customStrideCm)

\* the value a run of the useWalkingCalc callback returned
ROf(m) ==
  useWalkingCalc(m.weight, m.weightUnit, m.height, m.heightUnit,
                 CalcStepsOf(m.steps), m.sex, m.pace, m.customStrideCm,
                 m.useCustomStride)

\* useMemo of calcSteps, holding memo, in the render that follows a change
\* of the cells from old to new: the callback runs again when a listed
\* dependency is another value
CalcStepsMemoFrom(memo, old, new) ==
  IF \E d \in CalcStepsDeps : ~Is(d, old, new)
  THEN CalcStepsReads(new)
  ELSE memo

\* useMemo of useWalkingCalc, holding memo, in the same render, csOld and
\* cs being the calcSteps memo of the last and of this render: the callback
\* runs again when a listed dependency is another value, the step count
\* being compared by value. A step count that is the same value is kept as
\* the reads it now comes from; where running again and keeping give the
\* same cell, the step counts need not be computed to tell which of the
\* two happened.
RMemoFrom(memo, csOld, old, new, cs) ==
  LET again == RReads(new, cs)
      kept  == IF "steps" \in RDeps THEN [memo EXCEPT !.steps = cs] ELSE memo
  IN  IF again = kept THEN again
      ELSE IF \/ \E d \in RDeps \ {"steps"} : ~Is(d, old, new)
              \/ /\ "steps" \in RDeps
                 /\ cs # csOld
                 /\ ~Same(CalcStepsOf(cs), CalcStepsOf(csOld))
           THEN again
           ELSE kept

CalcStepsMemoNext(old, new) == CalcStepsMemoFrom(calcStepsMemo, old, new)

RMemoNext(old, new, cs) == RMemoFrom(rMemo, calcStepsMemo, old, new, cs)

\* the render after an event handler has set the cells
Render ==
  /\ calcStepsMemo' = CalcStepsMemoNext(Cells, Cells')
  /\ rMemo' = RMemoNext(Cells, Cells', calcStepsMemo')

\* no number yet
NoNumber == [k |-> "none"]

\* a mounted calculator: the cells as useState initialises them and the
\* memo cells of the first render
InitialCells ==
  [inputMode |-> "steps", weight |-> Num(70), weightUnit |-> "kg",
   height |-> Num(170), heightUnit |-> "cm", steps |-> Num(5000),
   distanceKm |-> Num(4), timeMin |-> Num(40), pace |-> "brisk",
   sex |-> "male", useCustomStride |-> FALSE, customStrideCm |-> Num(0)]

Mounted ==
  [cells |-> InitialCells,
   calcStepsMemo |-> CalcStepsReads(InitialCells),
   rMemo |-> RReads(InitialCells, CalcStepsReads(InitialCells))]

Instances == {1, 2}

\* the cells as useState initialises them, and the memo cells after the
\* first render
InitCells ==
  /\ inputMode = "steps"
  /\ weight = Num(70)
  /\ weightUnit = "kg"
  /\ height = Num(170)
  /\ heightUnit = "cm"
  /\ steps = Num(5000)
  /\ distanceKm = Num(4)
  /\ timeMin = Num(40)
  /\ pace = "brisk"
  /\ sex = "male"
  /\ useCustomStride = FALSE
  /\ customStrideCm = Num(0)
  /\ calcStepsMemo = CalcStepsReads(Cells)
  /\ rMemo = RReads(Cells, calcStepsMemo)

Init ==
  /\ InitCells
  /\ text = <<>>
  /\ parsed = NoNumber
  /\ page = [i \in Instances |-> Mounted]
  /\ target = 0

\* the three buttons of the input type toggle
SetInputMode ==
  /\ \E m \in InputMode : inputMode' = m
  /\ UNCHANGED <<weight, weightUnit, height, heightUnit, steps, distanceKm,
                 timeMin, pace, sex, useCustomStride, customStrideCm>>
  /\ Render
  /\ UNCHANGED <<text, parsed, page, target>>

SetWeight ==
  /\ \E v \in TypedWeight : weight' = toNumber(v)
  /\ UNCHANGED <<inputMode, weightUnit, height, heightUnit, steps, distanceKm,
                 timeMin, pace, sex, useCustomStride, customStrideCm>>
  /\ Render
  /\ UNCHANGED <<text, parsed, page, target>>

\* the unit buttons converting the number shown in the field
SetWeightUnitConverting ==
  /\ \E u \in WeightUnit :
       /\ weightUnit' = u
       /\ weight' = IF u = weightUnit THEN weight
                    ELSE IF u = "kg" THEN Mul(weight, Dec(45359237, 8))
                    ELSE Div(weight, Dec(45359237, 8))
  /\ UNCHANGED <<inputMode, height, heightUnit, steps, distanceKm,
                 timeMin, pace, sex, useCustomStride, customStrideCm>>
  /\ Render
  /\ UNCHANGED <<text, parsed, page, target>>

SetWeightUnit ==
  /\ \E u \in WeightUnit : weightUnit' = u
  /\ UNCHANGED <<inputMode, weight, height, heightUnit, steps, distanceKm,
                 timeMin, pace, sex, useCustomStride, customStrideCm>>
  /\ Render
  /\ UNCHANGED <<text, parsed, page, target>>

SetHeight ==
  /\ \E v \in TypedHeight : height' = toNumber(v)
  /\ UNCHANGED <<inputMode, weight, weightUnit, heightUnit, steps, distanceKm,
                 timeMin, pace, sex, useCustomStride, customStrideCm>>
  /\ Render
  /\ UNCHANGED <<text, parsed, page, target>>

SetHeightUnit ==
  /\ \E u \in HeightUnit : heightUnit' = u
  /\ UNCHANGED <<inputMode, weight, weightUnit, height, steps, distanceKm,
                 timeMin, pace, sex, useCustomStride, customStrideCm>>
  /\ Render
  /\ UNCHANGED <<text, parsed, page, target>>

\* the Steps field is rendered in steps mode only
SetSteps ==
  /\ inputMode = "steps"
  /\ \E v \in TypedSteps : steps' = toNumber(v)
  /\ UNCHANGED <<inputMode, weight, weightUnit, height, heightUnit, distanceKm,
                 timeMin, pace, sex, useCustomStride, customStrideCm>>
  /\ Render
  /\ UNCHANGED <<text, parsed, page, target>>

\* the Distance field is rendered in distance mode only
SetDistanceKm ==
  /\ inputMode = "distance"
  /\ \E v \in TypedDistance : distanceKm' = toNumber(v)
  /\ UNCHANGED <<inputMode, weight, weightUnit, height, heightUnit, steps,
                 timeMin, pace, sex, useCustomStride, customStrideCm>>
  /\ Render
  /\ UNCHANGED <<text, parsed, page, target>>

\* the Time field is rendered in time mode only
SetTimeMin ==
  /\ inputMode = "time"
  /\ \E v \in TypedTime : timeMin' = toNumber(v)
  /\ UNCHANGED <<inputMode, weight, weightUnit, height, heightUnit, steps,
                 distanceKm, pace, sex, useCustomStride, customStrideCm>>
  /\ Render
  /\ UNCHANGED <<text, parsed, page, target>>

SetPace ==
  /\ \E p \in PaceKey : pace' = p
  /\ UNCHANGED <<inputMode, weight, weightUnit, height, heightUnit, steps,
                 distanceKm, timeMin, sex, useCustomStride, customStrideCm>>
  /\ Render
  /\ UNCHANGED <<text, parsed, page, target>>

SetSex ==
  /\ \E x \in SexKey : sex' = x
  /\ UNCHANGED <<inputMode, weight, weightUnit, height, heightUnit, steps,
                 distanceKm, timeMin, pace, useCustomStride, customStrideCm>>
  /\ Render
  /\ UNCHANGED <<text, parsed, page, target>>

\* the checkbox reports its new, toggled state
SetUseCustomStride ==
  /\ useCustomStride' = ~useCustomStride
  /\ UNCHANGED <<inputMode, weight, weightUnit, height, heightUnit, steps,
                 distanceKm, timeMin, pace, sex, customStrideCm>>
  /\ Render
  /\ UNCHANGED <<text, parsed, page, target>>

\* the Stride length field is rendered while the checkbox is checked
SetCustomStrideCm ==
  /\ useCustomStride
  /\ \E v \in TypedStride : customStrideCm' = toNumber(v)
  /\ UNCHANGED <<inputMode, weight, weightUnit, height, heightUnit, steps,
                 distanceKm, timeMin, pace, sex, useCustomStride>>
  /\ Render
  /\ UNCHANGED <<text, parsed, page, target>>

\* a Reset that also puts the units back
resetAllAndUnits ==
  /\ weight' = Num(70)
  /\ steps' = Num(5000)
  /\ distanceKm' = Num(4)
  /\ timeMin' = Num(40)
  /\ inputMode' = "steps"
  /\ useCustomStride' = FALSE
  /\ weightUnit' = "kg"
  /\ heightUnit' = "cm"
  /\ UNCHANGED <<height, pace, sex, customStrideCm>>
  /\ Render
  /\ UNCHANGED <<text, parsed, page, target>>

resetAll ==
  /\ weight' = Num(70)
  /\ steps' = Num(5000)
  /\ distanceKm' = Num(4)
  /\ timeMin' = Num(40)
  /\ inputMode' = "steps"
  /\ useCustomStride' = FALSE
  /\ UNCHANGED <<weightUnit, height, heightUnit, pace, sex, customStrideCm>>
  /\ Render
  /\ UNCHANGED <<text, parsed, page, target>>

Next ==
  \/ SetInputMode
  \/ SetWeight
  \/ SetWeightUnit
  \/ SetHeight
  \/ SetHeightUnit
  \/ SetSteps
  \/ SetDistanceKm
  \/ SetTimeMin
  \/ SetPace
  \/ SetSex
  \/ SetUseCustomStride
  \/ SetCustomStrideCm
  \/ resetAll

Spec == Init /\ [][Next]_vars

(***************************************************************************)
(* toNumber on its own: a string is handed to the onChange of NumberInput, *)
(* which passes toNumber of it on.                                         *)
(***************************************************************************)
KeyChars == {"0", "1", ",", ".", "-", "e", "x", " "}

MaxChars == 3

\* strings longer than MaxChars that reach the non-finite results of
\* parseFloat and the replacement of the first comma only
LongStrings ==
  {<<"I", "n", "f", "i", "n", "i", "t", "y">>,
   <<"-", "I", "n", "f", "i", "n", "i", "t", "y">>,
   <<"1", "e", "9", "9", "9">>,
   <<"-", "1", "e", "9", "9", "9">>,
   <<"1", "e", "-", "9", "9", "9">>,
   <<"1", ",", "5", ",", "5">>,
   <<" ", "1", "2", ",", "5", "k", "g">>}

TypedText ==
  UNION {[1..n -> KeyChars] : n \in 0..MaxChars} \cup LongStrings

InitToNumber ==
  /\ InitCells
  /\ text \in TypedText
  /\ parsed = NoNumber
  /\ page = [i \in Instances |-> Mounted]
  /\ target = 0

\* onChange(toNumber(e.target.value))
NumberInputChange ==
  /\ parsed = NoNumber
  /\ parsed' = toNumber(text)
  /\ UNCHANGED <<inputMode, weight, weightUnit, height, heightUnit, steps,
                 distanceKm, timeMin, pace, sex, useCustomStride,
                 customStrideCm, calcStepsMemo, rMemo, text, page, target>>

SpecToNumber == InitToNumber /\ [][NumberInputChange]_vars

(***************************************************************************)
(* Two calculators on one page. Each component instance has its own        *)
(* useState and useMemo cells; STRIDE_FACTORS and PACE are the only        *)
(* module-level values and nothing writes them.                            *)
(***************************************************************************)
\* resetAll on the cells c
ResetCells(c) ==
  [c EXCEPT !.weight = Num(70), !.steps = Num(5000), !.distanceKm = Num(4),
            !.timeMin = Num(40), !.inputMode = "steps",
            !.useCustomStride = FALSE]

\* the cells after the event e: a setter called with a value, or Reset
CellsAfter(c, e) ==
  IF e.kind = "reset" THEN ResetCells(c) ELSE [c EXCEPT ![e.cell] = e.value]

\* a calculator after the event e and the render that follows it
InstanceAfter(inst, e) ==
  LET new == CellsAfter(inst.cells, e)
      cs  == CalcStepsMemoFrom(inst.calcStepsMemo, inst.cells, new)
  IN  [cells |-> new,
       calcStepsMemo |-> cs,
       rMemo |-> RMemoFrom(inst.rMemo, inst.calcStepsMemo, inst.cells, new, cs)]

\* all calculators of the page sharing the cells of the first
StateOfFirst(i) == 1

\* the cells the calculator i reads and writes: its own
StateOf(i) == i

\* the event e on the calculator i
On(i, e) ==
  /\ page' = [page EXCEPT ![StateOf(i)] = InstanceAfter(@, e)]
  /\ target' = i
  /\ UNCHANGED <<inputMode, weight, weightUnit, height, heightUnit, steps,
                 distanceKm, timeMin, pace, sex, useCustomStride,
                 customStrideCm, calcStepsMemo, rMemo, text, parsed>>

Set(cell, value) == [kind |-> "set", cell |-> cell, value |-> value]

PageSetInputMode ==
  \E i \in Instances, m \in InputMode : On(i, Set("inputMode", m))

PageSetWeight ==
  \E i \in Instances, v \in TypedWeight : On(i, Set("weight", toNumber(v)))

PageSetSteps ==
  \E i \in Instances, v \in TypedSteps :
    /\ page[StateOf(i)].cells.inputMode = "steps"
    /\ On(i, Set("steps", toNumber(v)))

PageSetSex ==
  \E i \in Instances, x \in SexKey : On(i, Set("sex", x))

PageReset ==
  \E i \in Instances : On(i, [kind |-> "reset"])

InitTwo ==
  /\ InitCells
  /\ text = <<>>
  /\ parsed = NoNumber
  /\ page = [i \in Instances |-> Mounted]
  /\ target = 0

NextTwo ==
  \/ PageSetInputMode
  \/ PageSetWeight
  \/ PageSetSteps
  \/ PageSetSex
  \/ PageReset

SpecTwo == InitTwo /\ [][NextTwo]_vars

\* Math.max of two numbers
MathMax(x, y) ==
  IF x.k = "nan" \/ y.k = "nan" THEN NaN
  ELSE IF Cmp(x, y) > 0 THEN x
  ELSE IF Cmp(x, y) < 0 THEN y
  ELSE IF x.s = 1 THEN x ELSE y

\* the number x.toFixed(0) spells: the nearest integer, halves away from
\* zero, and NaN or Infinity spelled as such
ToFixed0(x) ==
  IF x.k # "fin" THEN x
  ELSE IF x.s = 1 THEN MathRound(x)
  ELSE Mul(Num(-1), MathRound(Mul(Num(-1), x)))

\* the calorie figure of the results panel
shownCalories == ToFixed0(MathMax(Num(0), ROf(rMemo).calories))

\* what the component renders: the memoised calcSteps and the memoised
\* result r of useWalkingCalc
calcSteps == CalcStepsOf(calcStepsMemo)

r == ROf(rMemo)

(***************************************************************************)
(* Properties.                                                             *)
(***************************************************************************)
\* lo <= x <= hi
Between(x, lo, hi) == Ge(x, lo) /\ Ge(hi, x)

\* the stride calcSteps divides by
calcStride == CalcStride(height, sex, useCustomStride, customStrideCm)

\* the distance calcSteps converts to steps
calcKm == CalcKm(PACE, inputMode, distanceKm, timeMin, pace)

\* C1: every derived output of every reachable snapshot is a finite number
\* (neither NaN nor an infinity), also with height = 0 in distance or time
\* mode.
C1_OutputsFinite ==
  /\ IsFinite(r.strideAuto) /\ IsFinite(r.strideCm)
  /\ IsFinite(r.distanceKm) /\ IsFinite(r.distanceMi)
  /\ IsFinite(r.minutes) /\ IsFinite(r.hours)
  /\ IsFinite(r.calories) /\ IsFinite(r.cadence) /\ IsFinite(r.mph)

\* C2: in distance and time mode the stride that derives the step count is
\* customStrideCm when useCustomStride and customStrideCm > 0, otherwise the
\* height in centimetres times the stride factor of the sex, and so it is
\* the strideCm the same snapshot reports.
C2_StepStrideIsReportedStride ==
  inputMode # "steps" =>
    /\ Same(calcStride,
            IF useCustomStride /\ Gt(customStrideCm, Num(0))
            THEN customStrideCm
            ELSE Mul(IF heightUnit = "in" THEN Mul(height, Dec(254, 2)) ELSE height,
                     IF sex = "female" THEN Dec(413, 3) ELSE Dec(415, 3)))
    /\ Same(calcStride, r.strideCm)

\* the snapshot of C3 and C4: the calculator's initial inputs
StepsSnapshot ==
  /\ inputMode = "steps" /\ Same(steps, Num(5000))
  /\ Same(weight, Num(70)) /\ weightUnit = "kg"
  /\ Same(height, Num(170)) /\ heightUnit = "cm"
  /\ sex = "male" /\ pace = "brisk" /\ ~useCustomStride

\* C3 as stated: in the snapshot of 70 kg, 170 cm, 5000 steps, male, brisk,
\* the calories are approximately 396.9.
C3_CaloriesAbout397 ==
  StepsSnapshot => Between(r.calories, Dec(3968, 1), Dec(3970, 1))

\* C3, amended: in that snapshot the calories are 197.9 to one decimal
\* (197.92732408575).
C3_CaloriesAbout198 ==
  StepsSnapshot =>
    Ge(r.calories, Dec(19785, 2)) /\ Gt(Dec(19795, 2), r.calories)

C3_Witness ==
  /\ StepsSnapshot /\ Same(customStrideCm, Num(75))
  /\ Gt(r.calories, Num(197))

\* C4: in that snapshot strideAuto = 70.55 cm, distanceKm = 3.5275,
\* mph = 3.5, and distanceMi, hours and minutes are within 0.01 of 2.1923,
\* 0.6264 and 37.58.
C4_StepsScenario ==
  StepsSnapshot =>
    /\ Eq(r.strideAuto, Dec(7055, 2))
    /\ Eq(r.distanceKm, Dec(35275, 4))
    /\ Eq(r.mph, Dec(35, 1))
    /\ Between(r.distanceMi, Dec(21823, 4), Dec(22023, 4))
    /\ Between(r.hours, Dec(6164, 4), Dec(6364, 4))
    /\ Between(r.minutes, Dec(3757, 2), Dec(3759, 2))

C4_Witness ==
  /\ StepsSnapshot /\ Same(timeMin, Num(0))
  /\ Eq(r.distanceKm, Dec(35275, 4))

\* the snapshot of C5
TimeSnapshot ==
  /\ inputMode = "time" /\ Same(timeMin, Num(40)) /\ pace = "brisk"
  /\ Same(height, Num(170)) /\ heightUnit = "cm"
  /\ sex = "male" /\ ~useCustomStride

\* C5 as stated: in time mode with 40 minutes, brisk, 170 cm, male, no
\* custom stride, the distance is about 3.754 km, the effective stride is
\* 70.55 cm and the rounded step count is 5322.
C5_TimeScenario5322 ==
  TimeSnapshot =>
    /\ Between(calcKm, Dec(37535, 4), Dec(37545, 4))
    /\ Eq(calcStride, Dec(7055, 2))
    /\ Eq(calcSteps, Num(5322))

\* C5, amended: the distance is about 3.755 km (3.7551266...), the
\* effective stride is 70.55 cm and the rounded step count is 5323.
C5_TimeScenario5323 ==
  TimeSnapshot =>
    /\ Between(calcKm, Dec(37551, 4), Dec(37552, 4))
    /\ Eq(calcStride, Dec(7055, 2))
    /\ Eq(r.strideCm, Dec(7055, 2))
    /\ Eq(calcSteps, Num(5323))

C5_Witness ==
  /\ TimeSnapshot /\ Eq(calcSteps, Num(5323)) /\ Gt(r.calories, Num(0))

\* C6: hours = distanceMi / mph when mph > 0 (else 0), minutes = hours * 60
\* and calories = mets * 3.5 * weightKg * (minutes / 200), with mph and mets
\* the pace table's entries: easy 2.5/3.0, brisk 3.5/4.3, power 4.3/5.0,
\* jog 5.0/7.0.
C6_DurationAndCalories ==
  LET mph  == CASE pace = "easy" -> Dec(25, 1) [] pace = "brisk" -> Dec(35, 1)
                [] pace = "power" -> Dec(43, 1) [] pace = "jog" -> Dec(50, 1)
      mets == CASE pace = "easy" -> Dec(30, 1) [] pace = "brisk" -> Dec(43, 1)
                [] pace = "power" -> Dec(50, 1) [] pace = "jog" -> Dec(70, 1)
      kg   == IF weightUnit = "lb" THEN Mul(weight, Dec(45359237, 8)) ELSE weight
      o    == r
  IN  /\ Same(o.mph, mph)
      /\ Same(o.hours, IF Gt(mph, Num(0)) THEN Div(o.distanceMi, mph) ELSE Num(0))
      /\ Same(o.minutes, Mul(o.hours, Num(60)))
      /\ Same(o.calories,
              Mul(Mul(Mul(mets, Dec(35, 1)), kg), Div(o.minutes, Num(200))))

C6_Witness ==
  /\ pace = "jog" /\ weightUnit = "lb" /\ inputMode = "distance"
  /\ Gt(r.calories, Num(0))

\* C7: strideCm is customStrideCm exactly when useCustomStride and
\* customStrideCm > 0, and strideAuto in every other case (useCustomStride
\* false, or customStrideCm zero or negative); so strideCm > 0 whenever
\* height > 0.
C7_CustomStrideOnlyIfPositive ==
  LET o == r
  IN  /\ (useCustomStride /\ Gt(customStrideCm, Num(0)))
           => Same(o.strideCm, customStrideCm)
      /\ ~(useCustomStride /\ Gt(customStrideCm, Num(0)))
           => Same(o.strideCm, o.strideAuto)
      /\ Gt(height, Num(0)) => Gt(o.strideCm, Num(0))

\* C8: with useCustomStride and customStrideCm = 0 the effective stride is
\* strideAuto, in the reported strideCm and in the stride that derives the
\* steps from a distance or a time.
C8_ZeroCustomStrideFallsBack ==
  (useCustomStride /\ IsZero(customStrideCm)) =>
    /\ Same(r.strideCm, r.strideAuto)
    /\ inputMode # "steps" => Same(calcStride, r.strideAuto)

\* the inputs the data model allows
ValidInputs ==
  /\ Ge(weight, Num(0)) /\ Gt(height, Num(0)) /\ Ge(steps, Num(0))
  /\ Ge(distanceKm, Num(0)) /\ Ge(timeMin, Num(0))
  /\ Ge(customStrideCm, Num(0))

\* C9: for valid inputs calories >= 0, and with every other input fixed the
\* calories do not decrease when the weight grows or when the MET value of
\* the pace grows.
C9_CaloriesMonotone ==
  ValidInputs =>
    LET cs == calcSteps
        cal(P, w) ==
          WalkingCalc(P, w, weightUnit, height, heightUnit, cs, sex, pace,
                      customStrideCm, useCustomStride).calories
        now == cal(PACE, weight)
    IN  /\ Ge(now, Num(0))
        /\ \A v \in TypedWeight :
             Ge(toNumber(v), weight) => Ge(cal(PACE, toNumber(v)), now)
        /\ \A p \in PaceKey :
             Ge(PACE[p].mets, PACE[pace].mets)
               => Ge(cal([PACE EXCEPT ![pace].mets = PACE[p].mets], weight), now)

C9_Witness ==
  /\ ValidInputs /\ IsZero(weight) /\ weightUnit = "lb" /\ pace = "easy"
  /\ inputMode = "time" /\ Gt(calcSteps, Num(0)) /\ IsZero(r.calories)

\* what is rendered when the entry of the selected pace has mph = 0
zeroSpeed ==
  LET P0 == [PACE EXCEPT ![pace].mph = Num(0)]
  IN  WalkingCalc(P0, weight, weightUnit, height, heightUnit,
                  CalcStepsWith(P0, inputMode, steps, distanceKm, timeMin, pace,
                                height, sex, useCustomStride, customStrideCm),
                  sex, pace, customStrideCm, useCustomStride)

\* C10: when the pace table entry has mph = 0, hours, minutes, calories and
\* cadence are 0 for every other input.
C10_ZeroSpeedGivesZero ==
  LET o == zeroSpeed
  IN  IsZero(o.hours) /\ IsZero(o.minutes) /\ IsZero(o.calories) /\ IsZero(o.cadence)

C10_Witness ==
  LET o == zeroSpeed
  IN  /\ inputMode = "steps" /\ pace = "jog" /\ weightUnit = "lb"
      /\ Gt(weight, Num(0)) /\ Gt(o.distanceMi, Num(0)) /\ IsZero(o.hours)

\* C11: for the all-zero input (weight = 0, steps = 0, steps mode) and any
\* pace, sex, height and units, calories, distanceKm and cadence are 0.
C11_AllZeroInput ==
  (inputMode = "steps" /\ IsZero(weight) /\ IsZero(steps)) =>
    LET o == r
    IN  IsZero(o.calories) /\ IsZero(o.distanceKm) /\ IsZero(o.cadence)

C11_Witness ==
  /\ inputMode = "steps" /\ IsZero(weight) /\ IsZero(steps)
  /\ pace = "jog" /\ sex = "female" /\ heightUnit = "in" /\ weightUnit = "lb"
  /\ IsZero(r.cadence)

\* two results with the same nine outputs
SameOutputs(a, b) ==
  \/ a = b
  \/ /\ Same(a.strideAuto, b.strideAuto) /\ Same(a.strideCm, b.strideCm)
     /\ Same(a.distanceKm, b.distanceKm) /\ Same(a.distanceMi, b.distanceMi)
     /\ Same(a.minutes, b.minutes) /\ Same(a.hours, b.hours)
     /\ Same(a.calories, b.calories) /\ Same(a.cadence, b.cadence)
     /\ Same(a.mph, b.mph)

\* C12: weightKg is weight (kg) or weight * 0.45359237 (lb), heightCm is
\* height (cm) or height * 2.54 (in), and every output depends on weight and
\* height only through weightKg and heightCm, in every input mode: the same
\* weight or height entered in the other unit gives the same outputs.
C12_OnlyNormalisedUnitsMatter ==
  LET lbToKg == Dec(45359237, 8)
      inToCm == Dec(254, 2)
      o      == r
  IN  /\ Same(WeightKg(weight, weightUnit),
              IF weightUnit = "kg" THEN weight ELSE Mul(weight, lbToKg))
      /\ Same(HeightCm(height, heightUnit),
              IF heightUnit = "cm" THEN height ELSE Mul(height, inToCm))
      /\ SameOutputs(o,
           Rendered(inputMode,
                    IF weightUnit = "lb" THEN Mul(weight, lbToKg)
                                         ELSE Div(weight, lbToKg),
                    IF weightUnit = "lb" THEN "kg" ELSE "lb",
                    height, heightUnit, steps, distanceKm, timeMin, pace, sex,
                    useCustomStride, customStrideCm))
      /\ SameOutputs(o,
           Rendered(inputMode, weight, weightUnit,
                    IF heightUnit = "in" THEN Mul(height, inToCm)
                                         ELSE Div(height, inToCm),
                    IF heightUnit = "in" THEN "cm" ELSE "in",
                    steps, distanceKm, timeMin, pace, sex,
                    useCustomStride, customStrideCm))

\* C14: distanceKm = effectiveSteps * (strideCm / 100) / 1000 and
\* distanceMi = distanceKm * 0.621371, effectiveSteps being the entered
\* steps in steps mode and the derived step count otherwise.
C14_DistanceFromSteps ==
  LET o == r
      effectiveSteps == calcSteps
  IN  /\ inputMode = "steps" => Same(effectiveSteps, steps)
      /\ Same(o.distanceKm,
              Div(Mul(effectiveSteps, Div(o.strideCm, Num(100))), Num(1000)))
      /\ Same(o.distanceMi, Mul(o.distanceKm, Dec(621371, 6)))

\* C15: cadence = effectiveSteps / minutes when minutes > 0, and 0
\* otherwise.
C15_Cadence ==
  LET o == r
  IN  Same(o.cadence,
           IF Gt(o.minutes, Num(0)) THEN Div(calcSteps, o.minutes) ELSE Num(0))

C15_Witness ==
  /\ inputMode = "distance" /\ pace = "power" /\ sex = "female"
  /\ Between(r.cadence, Num(100), Num(200))

\* x is an integer
IsInteger(x) == IsFinite(x) /\ BigMul(BigDiv(x.n, x.d), x.d) = x.n

\* C16: in distance mode km = distanceKm, in time mode
\* km = PACE[pace].mph * 1.60934 * (timeMin / 60), and in both
\* effectiveSteps = round(km * 1000 / (effectiveStride / 100)), an integer,
\* effectiveStride being customStrideCm when useCustomStride and
\* customStrideCm > 0 and else the height in centimetres times the stride
\* factor.
C16_StepsFromDistanceOrTime ==
  inputMode # "steps" =>
    LET km == IF inputMode = "distance" THEN distanceKm
              ELSE Mul(Mul(PACE[pace].mph, Dec(160934, 5)), Div(timeMin, Num(60)))
        effectiveStride ==
          IF useCustomStride /\ Gt(customStrideCm, Num(0)) THEN customStrideCm
          ELSE Mul(IF heightUnit = "in" THEN Mul(height, Dec(254, 2)) ELSE height,
                   STRIDE_FACTORS[sex])
    IN  /\ Same(calcKm, km)
        /\ Same(calcSteps,
                MathRound(Div(Mul(km, Num(1000)), Div(effectiveStride, Num(100)))))
        /\ IsInteger(calcSteps)

\* C17: the input mode selects the one quantity that counts: in steps mode
\* effectiveSteps is the entered steps and no output depends on distanceKm
\* or timeMin, in distance mode none depends on steps or timeMin, in time
\* mode none depends on steps or distanceKm.
C17_OnlySelectedQuantityCounts ==
  LET o == r
      effectiveSteps == calcSteps
      \* the outputs with other values in the three cells; the hook is run
      \* again only when the step count handed to it is another one
      with(st, dkm, tm) ==
        LET cs == CalcSteps(inputMode, st, dkm, tm, pace, height, sex,
                            useCustomStride, customStrideCm)
        IN  IF cs = effectiveSteps THEN o
            ELSE useWalkingCalc(weight, weightUnit, height, heightUnit, cs, sex,
                                pace, customStrideCm, useCustomStride)
  IN  /\ inputMode = "steps" => Same(effectiveSteps, steps)
      /\ \A v \in TypedSteps :
           LET st == toNumber(v)
           IN  (inputMode # "steps" /\ ~Same(st, steps))
                 => SameOutputs(o, with(st, distanceKm, timeMin))
      /\ \A v \in TypedDistance :
           LET dkm == toNumber(v)
           IN  (inputMode # "distance" /\ ~Same(dkm, distanceKm))
                 => SameOutputs(o, with(steps, dkm, timeMin))
      /\ \A v \in TypedTime :
           LET tm == toNumber(v)
           IN  (inputMode # "time" /\ ~Same(tm, timeMin))
                 => SameOutputs(o, with(steps, distanceKm, tm))

C17_Witness ==
  /\ inputMode = "distance" /\ IsZero(steps) /\ IsZero(timeMin)
  /\ Gt(r.distanceKm, Num(3))

\* C18: toNumber returns a finite number for every string: the parsed value
\* when the string, its first comma read as a decimal point, parses to a
\* finite number, and 0 when it is empty, unparsable or parses to a
\* non-finite value; never NaN or Infinity.
C18_ToNumberFinite ==
  parsed # NoNumber =>
    LET n == parseFloat(ReplaceComma(text))
        hasDigit == \E i \in 1..Len(text) : IsDigit(text[i])
    IN  /\ IsFinite(parsed)
        /\ IsFinite(n) => Same(parsed, n)
        /\ ~IsFinite(n) => Same(parsed, Num(0))
        /\ ~hasDigit => Same(parsed, Num(0))
        /\ text = <<"1", ",", "1">> => Eq(parsed, Dec(11, 1))
        /\ text = <<"1", ",", "5", ",", "5">> => Eq(parsed, Dec(15, 1))
        /\ text = <<" ", "1", "2", ",", "5", "k", "g">> => Eq(parsed, Dec(125, 1))
        /\ text = <<"1", "e", "1">> => Eq(parsed, Num(10))
        /\ text = <<"-", ",", "1">> => Eq(parsed, Mul(Num(-1), Dec(1, 1)))
        /\ text = <<"1", "e", "-", "9", "9", "9">> => Same(parsed, Num(0))

C18_Witness ==
  /\ text = <<"1", "e", "9", "9", "9">>
  /\ parseFloat(ReplaceComma(text)) = Inf(1)
  /\ parsed = Num(0)

\* C19: the derived metrics are a function of the current input snapshot
\* and the two constant tables only: the component holds nothing besides
\* the twelve cells but the two memo cells, and these are what a first
\* render on the current cells would hold, so two runs that reach the same
\* snapshot by different events show the same outputs.
C19_OutputsFunctionOfSnapshot ==
  /\ calcStepsMemo = CalcStepsReads(Cells)
  /\ rMemo = RReads(Cells, CalcStepsReads(Cells))

C19_Witness ==
  /\ inputMode = "time" /\ IsZero(timeMin) /\ weightUnit = "lb"
  /\ sex = "female" /\ IsZero(weight)
  /\ calcStepsMemo.inputMode = "time" /\ IsZero(calcStepsMemo.timeMin)
  /\ rMemo.weightUnit = "lb" /\ IsZero(rMemo.weight)

\* C20: after any sequence of input events the displayed metrics equal
\* calcSteps and the engine computed from scratch on the current cells: the
\* memoised values are never stale.
C20_MemoNeverStale ==
  LET fresh == CalcSteps(inputMode, steps, distanceKm, timeMin, pace, height,
                         sex, useCustomStride, customStrideCm)
  IN  /\ Same(calcSteps, fresh)
      /\ SameOutputs(r,
                     useWalkingCalc(weight, weightUnit, height, heightUnit,
                                    fresh, sex, pace, customStrideCm,
                                    useCustomStride))

C20_Witness ==
  /\ inputMode = "time" /\ heightUnit = "in" /\ weightUnit = "lb"
  /\ pace = "easy" /\ useCustomStride /\ Gt(customStrideCm, Num(0))
  /\ Gt(r.calories, Num(0))

\* what the calculator inst displays
ShownBy(inst) == ROf(inst.rMemo)

\* C21: two calculators on one page are independent: under any
\* interleaving of events on the two, an event on one changes neither the
\* cells nor the outputs of the other.
C21_InstancesIndependent ==
  [][\A i \in Instances :
       i # target' =>
         /\ page'[i] = page[i]
         /\ SameOutputs(ShownBy(page'[i]), ShownBy(page[i]))]_vars

C21_Witness ==
  /\ target = 2
  /\ page[1] # Mounted /\ page[2] # Mounted /\ page[1] # page[2]
  /\ page[1].cells.inputMode = "distance" /\ IsZero(page[2].cells.weight)

\* C22: for a fixed step count, weight, height and sex in steps mode the
\* calories strictly increase with the pace, easy < brisk < power < jog.
C22_CaloriesIncreaseWithPace ==
  LET at(p) ==
        Rendered(inputMode, weight, weightUnit, height, heightUnit, steps,
                 distanceKm, timeMin, p, sex, useCustomStride,
                 customStrideCm).calories
  IN  (/\ inputMode = "steps" /\ Gt(weight, Num(0)) /\ Gt(height, Num(0))
       /\ Gt(steps, Num(0)) /\ Gt(r.strideCm, Num(0)))
        => /\ Gt(at("brisk"), at("easy"))
           /\ Gt(at("power"), at("brisk"))
           /\ Gt(at("jog"), at("power"))

\* C23: every snapshot handed to the computation satisfies the data-model
\* constraints: weight and height positive, steps a non-negative integer,
\* distanceKm, timeMin and customStrideCm non-negative.
C23_SnapshotWithinDataModel ==
  /\ Gt(weight, Num(0)) /\ Gt(height, Num(0))
  /\ Ge(steps, Num(0)) /\ IsInteger(steps)
  /\ Ge(distanceKm, Num(0)) /\ Ge(timeMin, Num(0))
  /\ Ge(customStrideCm, Num(0))
  /\ LET cs == calcSteps IN Ge(cs, Num(0)) /\ IsInteger(cs)

\* C29: in every reachable state the displayed calorie figure,
\* Math.max(0, calories) rounded to an integer, is a finite number >= 0.
C29_ShownCaloriesFiniteNonNegative ==
  LET shown == shownCalories
  IN  IsFinite(shown) /\ Ge(shown, Num(0))

\* C30: in every reachable state each numeric input the calculator holds
\* (weight, height, steps, distanceKm, timeMin, customStrideCm) is a finite
\* number.
C30_InputsFinite ==
  /\ IsFinite(weight) /\ IsFinite(height) /\ IsFinite(steps)
  /\ IsFinite(distanceKm) /\ IsFinite(timeMin) /\ IsFinite(customStrideCm)

C30_Witness ==
  /\ IsZero(weight) /\ IsZero(height) /\ IsZero(distanceKm)
  /\ useCustomStride /\ Gt(Num(0), customStrideCm)
  /\ C30_InputsFinite

\* x - y
Sub(x, y) ==
  IF x.k = "nan" \/ y.k = "nan" THEN NaN
  ELSE IF x.k = "inf"
       THEN (IF y.k = "inf" /\ y.s = x.s THEN NaN ELSE x)
  ELSE IF y.k = "inf" THEN Inf(-(y.s))
  ELSE LET a == BigMul(x.n, y.d)
           b == BigMul(y.n, x.d)
           d == BigMul(x.d, y.d)
       IN  IF x.s # y.s THEN Fin(x.s, BigAdd(a, b), d)
           ELSE IF BigCmp(a, b) > 0 THEN Fin(x.s, BigSub(a, b), d)
           ELSE IF BigCmp(a, b) < 0 THEN Fin(-(x.s), BigSub(b, a), d)
           ELSE Fin(1, <<>>, d)

\* |x|
Abs(x) == IF x.k = "nan" THEN x ELSE [x EXCEPT !.s = 1]

\* the stride of the data model: customStrideCm when useCustomStride and
\* customStrideCm > 0, else the height in centimetres times the stride factor
effectiveStride ==
  IF useCustomStride /\ Gt(customStrideCm, Num(0)) THEN customStrideCm
  ELSE Mul(IF heightUnit = "in" THEN Mul(height, Dec(254, 2)) ELSE height,
           STRIDE_FACTORS[sex])

\* half of one effective stride, in kilometres
halfStrideKm == Div(Div(Div(effectiveStride, Num(100)), Num(1000)), Num(2))

\* C24: in distance mode with a positive effective stride the reported
\* distanceKm differs from the entered distanceKm by at most half of one
\* effective stride, for every heightUnit, sex, pace and custom-stride
\* setting.
C24_DistanceRoundTrip ==
  (inputMode = "distance" /\ Gt(effectiveStride, Num(0))) =>
    Ge(halfStrideKm, Abs(Sub(r.distanceKm, distanceKm)))

\* C25: in time mode with a positive effective stride the reported minutes
\* equal the entered timeMin up to the rounding of the step count (half a
\* stride walked at the pace) and the mismatch of the constants
\* (1.60934 * 0.621371 instead of 1), for every pace, sex, heightUnit and
\* custom-stride setting.
C25_TimeRoundTrip ==
  (inputMode = "time" /\ Gt(effectiveStride, Num(0))) =>
    LET halfStrideMinutes ==
          Mul(Div(Mul(halfStrideKm, Dec(621371, 6)), PACE[pace].mph), Num(60))
        entered == Mul(timeMin, Mul(Dec(160934, 5), Dec(621371, 6)))
    IN  Ge(halfStrideMinutes, Abs(Sub(r.minutes, entered)))

\* C26: from any reachable state Reset returns the calculator to the state
\* of a freshly mounted one: every input equals its initial value, so the
\* displayed results equal the initial results.
C26_ResetGivesMountedState ==
  [][resetAll =>
       /\ Cells' = InitialCells
       /\ calcStepsMemo' = Mounted.calcStepsMemo
       /\ rMemo' = Mounted.rMemo]_vars

\* C27: Reset sets weight = 70, steps = 5000, distanceKm = 4, timeMin = 40,
\* inputMode = steps and useCustomStride = false and leaves weightUnit,
\* height, heightUnit, pace, sex and customStrideCm unchanged; Reset
\* applied twice gives the state Reset applied once gives.
C27_ResetEffectAndFrame ==
  [][resetAll =>
       /\ weight' = Num(70) /\ steps' = Num(5000) /\ distanceKm' = Num(4)
       /\ timeMin' = Num(40) /\ inputMode' = "steps"
       /\ useCustomStride' = FALSE
       /\ UNCHANGED <<weightUnit, height, heightUnit, pace, sex,
                      customStrideCm>>
       /\ Cells' = ResetCells(Cells)
       /\ ResetCells(Cells') = Cells']_vars

C27_Witness ==
  /\ Cells = ResetCells(Cells)
  /\ weightUnit = "lb" /\ heightUnit = "in" /\ pace = "jog" /\ sex = "female"
  /\ IsZero(height) /\ Gt(Num(0), customStrideCm)

\* C28: every input event other than Reset changes exactly one cell and
\* leaves all others unchanged: switching inputMode keeps steps, distanceKm
\* and timeMin, and switching weightUnit or heightUnit keeps the number in
\* weight or height without converting it.
C28_OneCellPerEvent ==
  [][~resetAll =>
       /\ Cardinality({d \in DOMAIN Cells : Cells'[d] # Cells[d]}) = 1
       /\ inputMode' # inputMode
            => UNCHANGED <<steps, distanceKm, timeMin>>
       /\ weightUnit' # weightUnit => weight' = weight
       /\ heightUnit' # heightUnit => height' = height]_vars

C28_Witness ==
  /\ inputMode = "time" /\ steps = Num(5000) /\ distanceKm = Num(4)
  /\ weightUnit = "lb" /\ weight = Num(70)
  /\ heightUnit = "in" /\ height = Num(170)

====
